---- MODULE Spec2Model ----
(***************************************************************************)
(* The Shaka provider adapter of vidstack: ShakaProvider (provider.ts),    *)
(* ShakaController (shaka.ts) and ShakaLibLoader (lib-loader).             *)
(*                                                                         *)
(* JavaScript runs every handler to completion, so one action is one       *)
(* handler.  ShakaController.setup is split where it hands control to user *)
(* code (the instance callbacks of line 74): what such a callback does is  *)
(* an input.  An awaited promise ends an action; its settlement is the     *)
(* next one.                                                               *)
(***************************************************************************)
EXTENDS Integers, Sequences, FiniteSets, TLC

None == "none"

(***************************************************************************)
(* Bounds of the model.                                                    *)
(***************************************************************************)
NumCallbacks == 2      \* distinct callback functions handed to onInstance
MaxLoads == 2          \* calls of instance.load in one behaviour
MaxTracks == 2         \* variant tracks of a manifest

CallbackIds == 1..NumCallbacks
LibKinds == {"url", "namespace", "loader", "undefined"}
ConfigVals == {"c1", "c2"}
RequestFilters == {"rf"}
ResponseFilters == {"pf"}
Sources == {"str", "obj"}          \* src.src a string, or not a string
ErrorVals == {"e1", "e2"}
Switches == {"current", "next", "load"}
Heights == 0..2                    \* 0: height missing or zero
Widths == 0..2                     \* 0: width missing or zero
Bandwidths == 1..2

Range(s) == {s[i] : i \in DOMAIN s}

RECURSIVE SeqsUpTo(_, _)
SeqsUpTo(S, n) ==
  IF n = 0 THEN {<<>>}
  ELSE LET shorter == SeqsUpTo(S, n - 1)
       IN shorter \cup {Append(s, x) : s \in {t \in shorter : Len(t) = n - 1}, x \in S}

(***************************************************************************)
(* Shaka's variant tracks (types.ts ShakaVariantTrack).  Shaka gives every *)
(* track of a list its own id: the id is the position in the list.         *)
(***************************************************************************)
\* Tracks with a width and a height, and the tracks without: an audio-only
\* variant, one without width and one without height.
SizedShapes == [width : Widths \ {0}, height : Heights \ {0}, bandwidth : Bandwidths]

UnsizedShapes ==
  {[width |-> 0, height |-> 0, bandwidth |-> 2],
   [width |-> 0, height |-> 1, bandwidth |-> 2],
   [width |-> 1, height |-> 0, bandwidth |-> 2]}

TrackShapes == SizedShapes \cup UnsizedShapes

WithIds(shapes) ==
  [i \in 1..Len(shapes) |->
     [id |-> i, width |-> shapes[i].width, height |-> shapes[i].height,
      bandwidth |-> shapes[i].bandwidth]]

VariantLists == {WithIds(s) : s \in SeqsUpTo(TrackShapes, MaxTracks)}

English == <<"en", "main">>
French == <<"fr", "main">>

(***************************************************************************)
(* The host's lists (foundation/list, not part of these sources): add      *)
(* appends the item it is given.                                           *)
(***************************************************************************)
ListAdd(list, item) == Append(list, item)

\* Array.prototype.find and Map.has as the adapter uses them: the position of
\* the first element for which the test holds (hits[i] is the test of element
\* i), 0 if there is none.
FirstIndex(hits) ==
  IF \E i \in DOMAIN hits : hits[i]
  THEN CHOOSE i \in DOMAIN hits : hits[i] /\ \A j \in 1..(i - 1) : ~hits[j]
  ELSE 0

(***************************************************************************)
(* #updateQualityTracks, shaka.ts 186-231.                                 *)
(***************************************************************************)
\* The key of the uniqueQualities map (line 195).
QualityKeyByResolution(track) == <<track.width, track.height>>
QualityKey(track) == track.height

\* The test that replaces a map entry (line 196).
Replaces(track, kept) == track.bandwidth > kept.bandwidth

\* The tracks line 194 lets through.
IsSized(track) == track.height # 0 /\ track.width # 0

\* Lines 193-200: the map's values in insertion order; set() on a key that is
\* present keeps the key's place.
RECURSIVE GroupUnique(_, _)
GroupUnique(tracks, kept) ==
  IF tracks = <<>> THEN kept
  ELSE LET track == Head(tracks)
           at == FirstIndex([i \in DOMAIN kept |-> QualityKey(kept[i]) = QualityKey(track)])
       IN GroupUnique(Tail(tracks),
            IF ~IsSized(track) THEN kept
            ELSE IF at = 0 THEN Append(kept, track)
            ELSE IF Replaces(track, kept[at]) THEN [kept EXCEPT ![at] = track]
            ELSE kept)

\* Lines 203-205: Array.prototype.sort is stable; (b.height - a.height) puts the
\* taller first.  Insertion of each element after the last one not shorter.
RECURSIVE InsertByHeight(_, _)
InsertByHeight(sorted, track) ==
  IF sorted = <<>> THEN <<track>>
  ELSE IF Head(sorted).height >= track.height
       THEN <<Head(sorted)>> \o InsertByHeight(Tail(sorted), track)
       ELSE <<track>> \o sorted

SortByHeightNone(tracks) == tracks

RECURSIVE SortByHeightDesc(_)
SortByHeightDesc(tracks) ==
  IF tracks = <<>> THEN <<>>
  ELSE InsertByHeight(SortByHeightDesc(SubSeq(tracks, 1, Len(tracks) - 1)),
                      tracks[Len(tracks)])

\* Line 210.
QualityId(trackId) == <<"shaka-quality", trackId>>

\* Lines 207-217: the quality built for sortedQualities[i]; index is i, 0-based.
ToQuality(track, i) ==
  [id |-> QualityId(track.id), width |-> track.width, height |-> track.height,
   bitrate |-> track.bandwidth, index |-> i]

\* Lines 189-219: the items added, in the order they are added.
ProjectedQualities(tracks) ==
  LET sorted == SortByHeightDesc(GroupUnique(tracks, <<>>))
  IN [i \in 1..Len(sorted) |-> ToQuality(sorted[i], i - 1)]

RECURSIVE AddAll(_, _)
AddAll(list, items) ==
  IF items = <<>> THEN list ELSE AddAll(ListAdd(list, Head(items)), Tail(items))

(***************************************************************************)
(* #updateAudioTracks, shaka.ts 233-248, and #updateTextTracks, 250-282.   *)
(***************************************************************************)
AudioId(index) == <<"shaka-audio", index>>

ToAudioTrack(langRole, index) ==
  [id |-> AudioId(index), language |-> langRole[1], kind |-> langRole[2]]

ProjectedAudio(langRoles) ==
  [i \in 1..Len(langRoles) |-> ToAudioTrack(langRoles[i], i - 1)]

TextId(trackId) == <<"shaka-text", trackId>>

ProjectedText(textIds) == [i \in 1..Len(textIds) |-> TextId(textIds[i])]

(***************************************************************************)
(* Event names.  A string is the sequence of its characters, so that the   *)
(* conversion of a name is computed and not assumed.                       *)
(***************************************************************************)
LowerLetters ==
  <<"a", "b", "c", "d", "e", "f", "g", "h", "i", "j", "k", "l", "m",
    "n", "o", "p", "q", "r", "s", "t", "u", "v", "w", "x", "y", "z">>
UpperLetters ==
  <<"A", "B", "C", "D", "E", "F", "G", "H", "I", "J", "K", "L", "M",
    "N", "O", "P", "Q", "R", "S", "T", "U", "V", "W", "X", "Y", "Z">>

IsLower(c) == \E i \in DOMAIN LowerLetters : LowerLetters[i] = c
IsUpper(c) == \E i \in DOMAIN UpperLetters : UpperLetters[i] = c
ToLowerCase(c) ==
  IF IsUpper(c) THEN LowerLetters[CHOOSE i \in DOMAIN UpperLetters : UpperLetters[i] = c]
  ELSE c

\* camelToKebabCase of maverick.js/std, which toDOMEventType calls: a '-' goes
\* between a lower-case letter and the upper-case letter after it, and the
\* result is lower-cased.
RECURSIVE CamelToKebabCase(_)
CamelToKebabCase(str) ==
  IF str = <<>> THEN <<>>
  ELSE IF Len(str) >= 2 /\ IsLower(str[1]) /\ IsUpper(str[2])
       THEN <<str[1], "-">> \o CamelToKebabCase(Tail(str))
       ELSE <<ToLowerCase(str[1])>> \o CamelToKebabCase(Tail(str))

\* toDOMEventType, shaka.ts 26.
ToDOMEventType(type) == <<"s", "h", "a", "k", "a", "-">> \o CamelToKebabCase(type)

\* The types of the events of the Shaka player the adapter listens to.
EvBuffering ==
  <<"b", "u", "f", "f", "e", "r", "i", "n", "g">>
EvLoading ==
  <<"l", "o", "a", "d", "i", "n", "g">>
EvLoaded ==
  <<"l", "o", "a", "d", "e", "d">>
EvUnloading ==
  <<"u", "n", "l", "o", "a", "d", "i", "n", "g">>
EvAdaptation ==
  <<"a", "d", "a", "p", "t", "a", "t", "i", "o", "n">>
EvTrackschanged ==
  <<"t", "r", "a", "c", "k", "s", "c", "h", "a", "n", "g", "e", "d">>
EvVariantchanged ==
  <<"v", "a", "r", "i", "a", "n", "t", "c", "h", "a", "n", "g", "e",
    "d">>
EvTextchanged ==
  <<"t", "e", "x", "t", "c", "h", "a", "n", "g", "e", "d">>
EvTexttrackvisibility ==
  <<"t", "e", "x", "t", "t", "r", "a", "c", "k", "v", "i", "s", "i",
    "b", "i", "l", "i", "t", "y">>
EvStreaming ==
  <<"s", "t", "r", "e", "a", "m", "i", "n", "g">>
EvManifestparsed ==
  <<"m", "a", "n", "i", "f", "e", "s", "t", "p", "a", "r", "s", "e",
    "d">>
EvError ==
  <<"e", "r", "r", "o", "r">>

\* The events setup attaches #dispatchShakaEvent to, shaka.ts 52-64.
DispatchedEvents ==
  {EvBuffering, EvLoading, EvLoaded, EvUnloading, EvAdaptation, EvTrackschanged,
   EvVariantchanged, EvTextchanged, EvTexttrackvisibility, EvStreaming,
   EvManifestparsed}

\* Those of them that have no other listener.
PlainEvents ==
  {EvLoading, EvUnloading, EvVariantchanged, EvTextchanged, EvTexttrackvisibility,
   EvStreaming, EvManifestparsed}

\* The names ShakaProviderEvents declares for the re-dispatched events,
\* events.ts 24-36.
DeclaredErrorName ==
  <<"s", "h", "a", "k", "a", "-", "e", "r", "r", "o", "r">>

DeclaredName(type) ==
  CASE type = EvBuffering ->
         <<"s", "h", "a", "k", "a", "-", "b", "u", "f", "f", "e", "r", "i",
           "n", "g">>
    [] type = EvLoading ->
         <<"s", "h", "a", "k", "a", "-", "l", "o", "a", "d", "i", "n", "g">>
    [] type = EvLoaded ->
         <<"s", "h", "a", "k", "a", "-", "l", "o", "a", "d", "e", "d">>
    [] type = EvUnloading ->
         <<"s", "h", "a", "k", "a", "-", "u", "n", "l", "o", "a", "d", "i",
           "n", "g">>
    [] type = EvAdaptation ->
         <<"s", "h", "a", "k", "a", "-", "a", "d", "a", "p", "t", "a", "t",
           "i", "o", "n">>
    [] type = EvTrackschanged ->
         <<"s", "h", "a", "k", "a", "-", "t", "r", "a", "c", "k", "s", "-",
           "c", "h", "a", "n", "g", "e", "d">>
    [] type = EvVariantchanged ->
         <<"s", "h", "a", "k", "a", "-", "v", "a", "r", "i", "a", "n", "t",
           "-", "c", "h", "a", "n", "g", "e", "d">>
    [] type = EvTextchanged ->
         <<"s", "h", "a", "k", "a", "-", "t", "e", "x", "t", "-", "c", "h",
           "a", "n", "g", "e", "d">>
    [] type = EvTexttrackvisibility ->
         <<"s", "h", "a", "k", "a", "-", "t", "e", "x", "t", "-", "t", "r",
           "a", "c", "k", "-", "v", "i", "s", "i", "b", "i", "l", "i", "t",
           "y">>
    [] type = EvStreaming ->
         <<"s", "h", "a", "k", "a", "-", "s", "t", "r", "e", "a", "m", "i",
           "n", "g">>
    [] type = EvManifestparsed ->
         <<"s", "h", "a", "k", "a", "-", "m", "a", "n", "i", "f", "e", "s",
           "t", "-", "p", "a", "r", "s", "e", "d">>

(***************************************************************************)
(* State.                                                                  *)
(***************************************************************************)
VARIABLES
  mediaSource,    \* the environment defines MediaSource
  library,        \* ShakaProvider.#library, by kind
  loaderPc,       \* where ShakaLibLoader.#startLoading stands
  ctor,           \* ShakaProvider.#ctor is set
  source,         \* the host's $state.source
  destroyPc,      \* where ShakaController.destroy stands
  instance,       \* ShakaController.#instance
  config,         \* ShakaController.config
  callbacks,      \* ShakaController.#callbacks, in insertion order
  iter,           \* entries of #callbacks the loop of setup has visited
  setupPc,        \* where ShakaController.setup stands
  invoked,        \* how often each callback was invoked with the instance
  registered,     \* callbacks handed to provider.onInstance so far
  disposed,       \* callbacks whose dispose function was called
  shakaAlive,     \* the Shaka player was constructed and not destroyed
  configured,     \* values passed to instance.configure
  reqFilters,     \* filters registered with the networking engine
  respFilters,
  listeners,      \* groups of listeners the adapter has attached
  pendingLoads,   \* promises of instance.load not settled yet
  loadCalled,     \* instance.load was called
  variantTracks,  \* instance.getVariantTracks()
  activeId,       \* id of the variant track with active = true, 0: none
  audioLangs,     \* instance.getAudioLanguagesAndRoles()
  textIds,        \* ids of instance.getTextTracks()
  libEvents,      \* lifecycle events dispatched on the player, in order
  canPlay,        \* the host's $state.canPlay
  qualities,      \* ctx.qualities: items, selected (position, 0: none), auto, switch
  qSelected,
  qAuto,
  qSwitch,
  audioTracks,    \* ctx.audioTracks: items and selected (position, 0: none)
  aSelected,
  textTracks,     \* ids of ctx.textTracks
  lastOp,         \* the handler that ran last, and its argument
  lastArg,
  calls,          \* calls it made on the Shaka instance, in order
  notes,          \* ctx.notify calls it made, in order
  domEvents,      \* Shaka events it re-dispatched on the player
  thrown,         \* it ended with an exception nobody caught
  qBefore         \* ctx.qualities.length when it ran #updateQualityTracks, else -1

provVars == <<mediaSource, library, loaderPc, ctor, source, destroyPc>>
ctlVars == <<instance, config, callbacks, iter, setupPc>>
cbVars == <<invoked, registered, disposed>>
shakaVars == <<shakaAlive, configured, reqFilters, respFilters, listeners,
               pendingLoads, loadCalled>>
manifestVars == <<variantTracks, activeId, audioLangs, textIds>>
qualityVars == <<qualities, qSelected, qAuto, qSwitch>>
trackVars == <<canPlay, audioTracks, aSelected, textTracks>>
lastVars == <<lastOp, lastArg, calls, notes, domEvents, thrown, qBefore>>
vars == <<provVars, ctlVars, cbVars, shakaVars, manifestVars, libEvents,
          qualityVars, trackVars, lastVars>>

Config(c, rf, pf) == [config |-> c, requestFilter |-> rf, responseFilter |-> pf]

EmptyConfig == Config(None, None, None)

\* The values the user assigns to provider.config.
Configs == {EmptyConfig, Config("c1", "rf", None), Config("c2", None, "pf"),
            Config(None, "rf", "pf")}

\* What one handler did, as the trace variables record it.
Did(op, arg, cs, ns, ds, ex, qb) ==
  /\ lastOp' = op
  /\ lastArg' = arg
  /\ calls' = cs
  /\ notes' = ns
  /\ domEvents' = ds
  /\ thrown' = ex
  /\ qBefore' = qb

\* A handler that calls nothing on the instance and notifies nobody.
Quiet == Did("quiet", None, <<>>, <<>>, <<>>, None, -1)

ErrorNote(code, error) == <<"error", code, error>>

ConfiguredBy(cs) == {cs[i][2] : i \in {j \in DOMAIN cs : cs[j][1] = "configure"}}
LoadsIn(cs) == Cardinality({j \in DOMAIN cs : cs[j][1] = "load"})
ListenersIn(cs) == {cs[i][2] : i \in {j \in DOMAIN cs : cs[j][1] = "addEventListener"}}

(***************************************************************************)
(* Construction: provider.ts 113-166, shaka.ts 29-45.                      *)
(***************************************************************************)
InitProgram ==
  /\ mediaSource \in BOOLEAN
  /\ library = "url"
  /\ loaderPc = "new"
  /\ ctor = FALSE
  /\ source = None
  /\ destroyPc = "no"
  /\ instance = None
  /\ config = EmptyConfig
  /\ callbacks = <<>>
  /\ iter = 0
  /\ setupPc = "none"
  /\ invoked = [c \in CallbackIds |-> 0]
  /\ registered = {}
  /\ disposed = {}
  /\ shakaAlive = FALSE
  /\ configured = {}
  /\ reqFilters = {}
  /\ respFilters = {}
  /\ listeners = {}
  /\ pendingLoads = 0
  /\ loadCalled = FALSE
  /\ activeId = 0
  /\ libEvents = <<>>
  /\ canPlay = FALSE
  /\ qualities = <<>>
  /\ qSelected = 0
  /\ qAuto = FALSE
  /\ qSwitch = "current"
  /\ audioTracks = <<>>
  /\ aSelected = 0
  /\ textTracks = <<>>
  /\ lastOp = "new"
  /\ lastArg = None
  /\ calls = <<>>
  /\ notes = <<>>
  /\ domEvents = <<>>
  /\ thrown = None
  /\ qBefore = -1

\* No handler runs while setup is inside an instance callback.
Idle == setupPc # "callbacks"

(***************************************************************************)
(* provider.loadSource (provider.ts 263-273) and ShakaController.loadSource*)
(* up to its await (shaka.ts 423-428): the calls made on the instance.     *)
(***************************************************************************)
LoadSourceCalls(src, inst) ==
  IF src = "str" /\ inst # None THEN <<<<"load", src>>>> ELSE <<>>

\* instance.load was called: its promise is pending.
Loading(cs) ==
  /\ pendingLoads' = pendingLoads + LoadsIn(cs)
  /\ loadCalled' = (loadCalled \/ LoadsIn(cs) > 0)

(***************************************************************************)
(* The property setters of the provider: provider.ts 215-217, 243-245.     *)
(***************************************************************************)
SetLibrary(lib) ==
  /\ loaderPc = "new"
  /\ lib # library
  /\ library' = lib
  /\ Quiet
  /\ UNCHANGED <<mediaSource, loaderPc, ctor, source, destroyPc, ctlVars, cbVars,
                 shakaVars, manifestVars, libEvents, qualityVars, trackVars>>

SetConfig(cfg) ==
  /\ Idle
  /\ cfg # config
  /\ config' = cfg
  /\ Quiet
  /\ UNCHANGED <<provVars, instance, callbacks, iter, setupPc, cbVars, shakaVars,
                 manifestVars, libEvents, qualityVars, trackVars>>

(***************************************************************************)
(* ShakaLibLoader: lib-loader 19-113, with loadShakaScript (159-191) and   *)
(* importShaka (115-152).                                                  *)
(***************************************************************************)
\* #onLoadError, lines 90-112.
LoadErrorEvents == <<"shaka-lib-load-error">>
LoadErrorNotesPlayback == <<ErrorNote(1, "loadError")>>
LoadErrorNotes == <<ErrorNote(4, "loadError")>>

\* The event #onLoaded dispatches, lines 81-85.
LoadedEventsNone == <<>>
LoadedEvents == <<"shaka-lib-loaded">>

\* #onLoaded (72-88), the provider's callback (provider.ts 254-256) and setup up
\* to its loop over the callbacks (shaka.ts 48-74).
\* The listeners setup attaches before it runs the callbacks (shaka.ts 50-73):
\* #dispatchShakaEvent for eleven event types, then #onError for 'error'.
SetupFirstListeners ==
  <<<<"addEventListener", "dispatch">>, <<"addEventListener", "error">>>>

BeginSetup(op, before) ==
  /\ libEvents' = libEvents \o before \o LoadedEvents
  /\ ctor' = TRUE
  /\ instance' = "shaka"
  /\ shakaAlive' = TRUE
  /\ listeners' = listeners \cup ListenersIn(SetupFirstListeners)
  /\ setupPc' = "callbacks"
  /\ iter' = 0
  /\ loaderPc' = "loaded"
  /\ Did(op, None, SetupFirstListeners, <<>>, <<>>, None, -1)
  /\ UNCHANGED <<mediaSource, library, source, destroyPc, config, callbacks, cbVars,
                 configured, reqFilters, respFilters, pendingLoads, loadCalled,
                 manifestVars, qualityVars, trackVars>>

FailLoading(op) ==
  /\ libEvents' = libEvents \o LoadErrorEvents
  /\ loaderPc' = "failed"
  /\ Did(op, None, <<>>, LoadErrorNotes, <<>>, None, -1)
  /\ UNCHANGED <<mediaSource, library, ctor, source, destroyPc, ctlVars, cbVars,
                 shakaVars, manifestVars, qualityVars, trackVars>>

\* provider.setup (provider.ts 252-261) constructs the loader, whose
\* #startLoading runs to its first await: for a string, onLoadStart and
\* loadScript; otherwise loadShakaScript returns undefined at once.
ProviderSetup ==
  /\ loaderPc = "new"
  /\ IF library = "url"
     THEN /\ libEvents' = libEvents \o <<"shaka-lib-load-start">>
          /\ loaderPc' = "script"
     ELSE /\ libEvents' = libEvents
          /\ loaderPc' = "deferred"
  /\ Quiet
  /\ UNCHANGED <<mediaSource, library, ctor, source, destroyPc, ctlVars, cbVars,
                 shakaVars, manifestVars, qualityVars, trackVars>>

\* loadScript settled: lines 168-188.
ScriptLoaded ==
  /\ loaderPc = "script"
  /\ BeginSetup("scriptLoaded", <<>>)

ScriptFailed ==
  /\ loaderPc = "script"
  /\ FailLoading("scriptFailed")

\* The library is no string: importShaka, lines 119-129.
ImportUndefined ==
  /\ loaderPc = "deferred"
  /\ library = "undefined"
  /\ loaderPc' = "noCtor"
  /\ Quiet
  /\ UNCHANGED <<mediaSource, library, ctor, source, destroyPc, ctlVars, cbVars,
                 shakaVars, manifestVars, libEvents, qualityVars, trackVars>>

ImportNamespace ==
  /\ loaderPc = "deferred"
  /\ library = "namespace"
  /\ BeginSetup("importShaka", <<"shaka-lib-load-start">>)

ImportLoader ==
  /\ loaderPc = "deferred"
  /\ library = "loader"
  /\ libEvents' = libEvents \o <<"shaka-lib-load-start">>
  /\ loaderPc' = "import"
  /\ Quiet
  /\ UNCHANGED <<mediaSource, library, ctor, source, destroyPc, ctlVars, cbVars,
                 shakaVars, manifestVars, qualityVars, trackVars>>

\* The dynamic import settled: lines 131-149.
ImportResolved ==
  /\ loaderPc = "import"
  /\ BeginSetup("importResolved", <<>>)

ImportFailed ==
  /\ loaderPc = "import"
  /\ FailLoading("importFailed")

(***************************************************************************)
(* The loop of setup over #callbacks, shaka.ts 74.  A Set is iterated in   *)
(* insertion order; an entry added during the loop is visited, an entry    *)
(* deleted before its turn is not.  What a callback does is an input:      *)
(* return, register another callback (provider.onInstance), call a dispose *)
(* function, call provider.loadSource, or throw.                           *)
(***************************************************************************)
\* Set.prototype.delete, as the dispose function calls it (shaka.ts 416).
RemoveNothing(seq, x) == seq
Remove(seq, x) == SelectSeq(seq, LAMBDA y : y # x)
Position(seq, x) == FirstIndex([i \in DOMAIN seq |-> seq[i] = x])

\* provider.onInstance (provider.ts 310-314) and ShakaController.onInstance
\* (shaka.ts 414-417): the invocations and the set after registering cb.
InvokedOnRegister(counts, cb, inst) ==
  IF inst # None THEN [counts EXCEPT ![cb] = @ + 1] ELSE counts

SetAdd(seq, x) == IF x \in Range(seq) THEN seq ELSE Append(seq, x)

\* The callbacks the loop of line 74 still visits after it has visited n of them.
StillToVisit(seq, n) == SubSeq(seq, n + 1, Len(seq))

Visiting == setupPc = "callbacks" /\ StillToVisit(callbacks, iter) # <<>>
Current == Head(StillToVisit(callbacks, iter))

CallbackReturns ==
  /\ Visiting
  /\ invoked' = [invoked EXCEPT ![Current] = @ + 1]
  /\ iter' = iter + 1
  /\ Did("callback", "return", <<>>, <<>>, <<>>, None, -1)
  /\ UNCHANGED <<provVars, instance, config, callbacks, setupPc, registered, disposed,
                 shakaVars, manifestVars, libEvents, qualityVars, trackVars>>

CallbackRegisters(cb) ==
  /\ Visiting
  /\ cb \notin registered
  /\ invoked' = InvokedOnRegister([invoked EXCEPT ![Current] = @ + 1], cb, instance)
  /\ callbacks' = SetAdd(callbacks, cb)
  /\ registered' = registered \cup {cb}
  /\ iter' = iter + 1
  /\ Did("callback", "register", <<>>, <<>>, <<>>, None, -1)
  /\ UNCHANGED <<provVars, instance, config, setupPc, disposed, shakaVars,
                 manifestVars, libEvents, qualityVars, trackVars>>

CallbackDisposes(cb) ==
  /\ Visiting
  /\ cb \in Range(callbacks)
  /\ invoked' = [invoked EXCEPT ![Current] = @ + 1]
  /\ callbacks' = Remove(callbacks, cb)
  /\ disposed' = disposed \cup {cb}
  /\ iter' = IF Position(callbacks, cb) <= iter + 1 THEN iter ELSE iter + 1
  /\ Did("callback", "dispose", <<>>, <<>>, <<>>, None, -1)
  /\ UNCHANGED <<provVars, instance, config, setupPc, registered, shakaVars,
                 manifestVars, libEvents, qualityVars, trackVars>>

CallbackLoads ==
  /\ Visiting
  /\ pendingLoads + 1 < MaxLoads
  /\ invoked' = [invoked EXCEPT ![Current] = @ + 1]
  /\ iter' = iter + 1
  /\ Loading(LoadSourceCalls("str", instance))
  /\ Did("callback", "load", LoadSourceCalls("str", instance), <<>>, <<>>, None, -1)
  /\ UNCHANGED <<provVars, instance, config, callbacks, setupPc, registered, disposed,
                 shakaAlive, configured, reqFilters, respFilters, listeners,
                 manifestVars, libEvents, qualityVars, trackVars>>

\* The exception leaves setup and #onLoaded.  loadShakaScript (184-188) and the
\* dynamic import of importShaka (138-149) call onLoaded inside their try; the
\* namespace branch (127) does not.
CallbackThrows ==
  /\ Visiting
  /\ invoked' = [invoked EXCEPT ![Current] = @ + 1]
  /\ iter' = iter + 1
  /\ setupPc' = "aborted"
  /\ loaderPc' = "failed"
  /\ IF library = "namespace"
     THEN /\ libEvents' = libEvents
          /\ Did("callback", "throw", <<>>, <<>>, <<>>, "callbackError", -1)
     ELSE /\ libEvents' = libEvents \o LoadErrorEvents
          /\ Did("callback", "throw", <<>>, LoadErrorNotes, <<>>, None, -1)
  /\ UNCHANGED <<mediaSource, library, ctor, source, destroyPc, instance, config,
                 callbacks, registered, disposed, shakaVars, manifestVars, qualityVars,
                 trackVars>>

(***************************************************************************)
(* The rest of setup (shaka.ts 76-120), of the provider's callback         *)
(* (provider.ts 257-259) and of #startLoading (lib-loader 46-58).          *)
(***************************************************************************)
\* Lines 81-83.
SetupConfigureCalls(cfg) ==
  IF cfg.config # None THEN <<<<"configure", cfg.config>>>> ELSE <<>>

\* Lines 86-94; getNetworkingEngine() of a player that is not destroyed.
SetupRequestFilters(cfg, alive) ==
  IF alive /\ cfg.requestFilter # None THEN {cfg.requestFilter} ELSE {}

SetupResponseFilters(cfg, alive) ==
  IF alive /\ cfg.responseFilter # None THEN {cfg.responseFilter} ELSE {}

\* Lines 50-54 of lib-loader.
UnsupportedEventsInverted == IF mediaSource THEN <<"shaka-unsupported">> ELSE <<>>
UnsupportedEvents == IF mediaSource THEN <<>> ELSE <<"shaka-unsupported">>
UnsupportedNotes == IF mediaSource THEN <<>> ELSE <<ErrorNote(4, "unsupported")>>

\* Lines 97-112: the listeners for adaptation, trackschanged, loaded, buffering.
SetupTrackListeners == <<<<"addEventListener", "tracks">>>>

SetupFinish ==
  /\ setupPc = "callbacks"
  /\ StillToVisit(callbacks, iter) = <<>>
  /\ LET cs == SetupConfigureCalls(config) \o SetupTrackListeners
               \o LoadSourceCalls(source, instance)
     IN /\ configured' = configured \cup ConfiguredBy(cs)
        /\ listeners' = listeners \cup ListenersIn(cs) \cup {"user"}
        /\ Loading(cs)
        /\ Did("setup", None, cs, <<<<"provider-setup">>>> \o UnsupportedNotes,
               <<>>, None, -1)
  /\ reqFilters' = reqFilters \cup SetupRequestFilters(config, shakaAlive)
  /\ respFilters' = respFilters \cup SetupResponseFilters(config, shakaAlive)
  /\ libEvents' = libEvents \o <<"shaka-instance">> \o UnsupportedEvents
  /\ setupPc' = "done"
  /\ loaderPc' = "done"
  /\ iter' = 0
  /\ UNCHANGED <<mediaSource, library, ctor, source, destroyPc, instance, config,
                 callbacks, cbVars, shakaAlive, manifestVars, qualityVars, trackVars>>

(***************************************************************************)
(* The provider's methods the host and the user call.                      *)
(***************************************************************************)
\* provider.onInstance, provider.ts 310-314.
OnInstance(cb) ==
  /\ Idle
  /\ cb \notin registered
  /\ invoked' = InvokedOnRegister(invoked, cb, instance)
  /\ callbacks' = SetAdd(callbacks, cb)
  /\ registered' = registered \cup {cb}
  /\ Quiet
  /\ UNCHANGED <<provVars, instance, config, iter, setupPc, disposed, shakaVars,
                 manifestVars, libEvents, qualityVars, trackVars>>

\* The dispose function onInstance returned, shaka.ts 416.
Dispose(cb) ==
  /\ Idle
  /\ cb \in Range(callbacks)
  /\ callbacks' = Remove(callbacks, cb)
  /\ disposed' = disposed \cup {cb}
  /\ Quiet
  /\ UNCHANGED <<provVars, instance, config, iter, setupPc, invoked, registered,
                 shakaVars, manifestVars, libEvents, qualityVars, trackVars>>

\* provider.registerRequestFilter and registerResponseFilter (provider.ts 354-356,
\* 393-395; shaka.ts 397-412): the filters the networking engine gets.  A
\* player that was destroyed has no networking engine.
RegisteredBy(filter, inst, alive) == IF inst # None /\ alive THEN {filter} ELSE {}

RegisterRequestFilter(filter) ==
  /\ Idle
  /\ reqFilters' = reqFilters \cup RegisteredBy(filter, instance, shakaAlive)
  /\ Did("registerRequestFilter", filter, <<>>, <<>>, <<>>, None, -1)
  /\ UNCHANGED <<provVars, ctlVars, cbVars, shakaAlive, configured, respFilters,
                 listeners, pendingLoads, loadCalled, manifestVars, libEvents,
                 qualityVars, trackVars>>

RegisterResponseFilter(filter) ==
  /\ Idle
  /\ respFilters' = respFilters \cup RegisteredBy(filter, instance, shakaAlive)
  /\ Did("registerResponseFilter", filter, <<>>, <<>>, <<>>, None, -1)
  /\ UNCHANGED <<provVars, ctlVars, cbVars, shakaAlive, configured, reqFilters,
                 listeners, pendingLoads, loadCalled, manifestVars, libEvents,
                 qualityVars, trackVars>>

\* The host sets its source and calls provider.loadSource.
HostLoadSource(src) ==
  /\ Idle
  /\ pendingLoads < MaxLoads
  /\ source' = src
  /\ Loading(LoadSourceCalls(src, instance))
  /\ Did("loadSource", src, LoadSourceCalls(src, instance), <<>>, <<>>, None, -1)
  /\ UNCHANGED <<mediaSource, library, loaderPc, ctor, destroyPc, ctlVars, cbVars,
                 shakaAlive, configured, reqFilters, respFilters, listeners,
                 manifestVars, libEvents, qualityVars, trackVars>>

\* The promise of instance.load settled: shaka.ts 428-444.
LoadRejectedNotes(error) == <<ErrorNote(1, error)>>

LoadRejectedThrown(error) == None

\* The calls the catch block makes on the instance (shaka.ts 429-444): it logs
\* and notifies, and does not call load again.
LoadRejectedCallsRetry == <<<<"load", "str">>>>
LoadRejectedCalls == <<>>

LoadResolved ==
  /\ Idle
  /\ pendingLoads > 0
  /\ pendingLoads' = pendingLoads - 1
  /\ Quiet
  /\ UNCHANGED <<provVars, ctlVars, cbVars, shakaAlive, configured, reqFilters,
                 respFilters, listeners, loadCalled, manifestVars, libEvents,
                 qualityVars, trackVars>>

LoadRejected(error) ==
  /\ Idle
  /\ pendingLoads > 0
  /\ pendingLoads' = pendingLoads - 1 + LoadsIn(LoadRejectedCalls)
  /\ Did("loadRejected", error, LoadRejectedCalls, LoadRejectedNotes(error), <<>>,
         LoadRejectedThrown(error), -1)
  /\ UNCHANGED <<provVars, ctlVars, cbVars, shakaAlive, configured, reqFilters,
                 respFilters, listeners, loadCalled, manifestVars, libEvents,
                 qualityVars, trackVars>>

\* provider.destroy (provider.ts 397-399) and ShakaController.destroy up to its
\* await (shaka.ts 447-450), then the rest of it (451-454).
DestroyBegin ==
  /\ Idle
  /\ destroyPc = "no"
  /\ IF instance # None
     THEN /\ destroyPc' = "awaiting"
          /\ shakaAlive' = FALSE
          /\ Did("destroy", None, <<<<"destroy">>>>, <<>>, <<>>, None, -1)
     ELSE /\ destroyPc' = "done"
          /\ shakaAlive' = shakaAlive
          /\ Quiet
  /\ UNCHANGED <<mediaSource, library, loaderPc, ctor, source, ctlVars, cbVars,
                 configured, reqFilters, respFilters, listeners, pendingLoads,
                 loadCalled, manifestVars, libEvents, qualityVars, trackVars>>

DestroyEnd ==
  /\ Idle
  /\ destroyPc = "awaiting"
  /\ destroyPc' = "done"
  /\ instance' = None
  /\ Quiet
  /\ UNCHANGED <<mediaSource, library, loaderPc, ctor, source, config, callbacks,
                 iter, setupPc, cbVars, shakaVars, manifestVars, libEvents,
                 qualityVars, trackVars>>

(***************************************************************************)
(* The handlers of the host's 'change' events, shaka.ts 346-392.           *)
(***************************************************************************)
\* Line 364: the clearBuffer argument.
ClearBufferAlways(switch) == TRUE
ClearBuffer(switch) == switch = "current"

\* #onUserQualityChange: the calls on the instance, in order.
UserQualityCalls(inst, auto, sel, switch, qs, tracks) ==
  IF inst = None \/ auto \/ sel = 0 THEN <<>>
  ELSE LET match == FirstIndex([i \in DOMAIN tracks |-> tracks[i].height = qs[sel].height])
       IN <<<<"configure", "abrOff">>, <<"getVariantTracks">>>>
          \o (IF match # 0
              THEN <<<<"selectVariantTrack", tracks[match].id, ClearBuffer(switch)>>>>
              ELSE <<>>)

\* #onUserAudioChange: the calls on the instance, in order.
UserAudioCalls(inst, sel, tracks, langRoles) ==
  IF inst = None \/ sel = 0 THEN <<>>
  ELSE <<<<"getAudioLanguagesAndRoles">>>>
       \o (IF sel - 1 >= 0 /\ sel - 1 < Len(langRoles)
           THEN <<<<"selectAudioLanguage", langRoles[sel][1], langRoles[sel][2]>>>>
           ELSE <<>>)

\* The variant track selectVariantTrack made active, if one was selected.
ActiveAfter(cs, active) ==
  LET picks == {j \in DOMAIN cs : cs[j][1] = "selectVariantTrack"}
  IN IF picks = {} THEN active ELSE cs[CHOOSE j \in picks : TRUE][2]

\* The host's list emits 'change' after a selection that changed it (the host's
\* select lists, not part of these sources); the listener of line 117 runs then.
ChangeCalls(before, after, auto, qs, tracks) ==
  IF before # after /\ "user" \in listeners
  THEN UserQualityCalls(instance, auto, after, qSwitch, qs, tracks)
  ELSE <<>>

HostQualityChange(sel, auto, switch) ==
  /\ Idle
  /\ sel \in 0..Len(qualities)
  /\ qSelected' = sel
  /\ qAuto' = auto
  /\ qSwitch' = switch
  /\ qualities' = qualities
  /\ LET cs == IF "user" \in listeners
               THEN UserQualityCalls(instance, auto, sel, switch, qualities, variantTracks)
               ELSE <<>>
     IN /\ configured' = configured \cup ConfiguredBy(cs)
        /\ activeId' = ActiveAfter(cs, activeId)
        /\ Did("qualityChange", None, cs, <<>>, <<>>, None, -1)
  /\ UNCHANGED <<provVars, ctlVars, cbVars, shakaAlive, reqFilters, respFilters,
                 listeners, pendingLoads, loadCalled, variantTracks, audioLangs,
                 textIds, libEvents, trackVars>>

HostAudioChange(sel) ==
  /\ Idle
  /\ sel \in 0..Len(audioTracks)
  /\ aSelected' = sel
  /\ LET cs == IF "user" \in listeners
               THEN UserAudioCalls(instance, sel, audioTracks, audioLangs)
               ELSE <<>>
     IN Did("audioChange", None, cs, <<>>, <<>>, None, -1)
  /\ UNCHANGED <<provVars, ctlVars, cbVars, shakaVars, manifestVars, libEvents,
                 qualityVars, canPlay, audioTracks, textTracks>>

(***************************************************************************)
(* The listeners of the Shaka instance, shaka.ts 141-333.                  *)
(***************************************************************************)
\* #dispatchShakaEvent, attached for the events of lines 52-64.
Redispatched(type) ==
  IF "dispatch" \in listeners /\ type \in DispatchedEvents
  THEN <<ToDOMEventType(type)>>
  ELSE <<>>

\* Lines 222-230: the quality selected once the items were added.
SelectedAfterUpdate(qs, sel, tracks, active) ==
  LET at == FirstIndex([i \in DOMAIN tracks |-> tracks[i].id = active])
      found == IF at = 0 THEN 0
               ELSE FirstIndex([i \in DOMAIN qs |-> qs[i].height = tracks[at].height])
  IN IF found # 0 THEN found ELSE sel

\* The guard of #onTracksChanged, line 289.
NotInitialized(qs) == Len(qs) = 0

\* A Shaka event reaches the adapter only from a live player that was told to load.
Emitting == Idle /\ shakaAlive /\ loadCalled

\* 'loaded': #dispatchShakaEvent, then #onLoaded (153-184).  The 'canplay' event
\* of line 183 makes the host set canPlay (the host's media events, not part of
\* these sources).
ShakaLoaded ==
  /\ Emitting
  /\ IF "tracks" \in listeners /\ ~canPlay /\ instance # None
     THEN LET qs == AddAll(qualities, ProjectedQualities(variantTracks))
              sel == SelectedAfterUpdate(qs, qSelected, variantTracks, activeId)
              cs == ChangeCalls(qSelected, sel, TRUE, qs, variantTracks)
          IN /\ qAuto' = TRUE
             /\ qualities' = qs
             /\ qSelected' = sel
             /\ configured' = configured \cup ConfiguredBy(cs)
             /\ activeId' = ActiveAfter(cs, activeId)
             /\ audioTracks' = AddAll(audioTracks, ProjectedAudio(audioLangs))
             /\ textTracks' = AddAll(textTracks, ProjectedText(textIds))
             /\ canPlay' = TRUE
             /\ Did("loaded", None, cs, <<<<"stream-type-change">>>>,
                    Redispatched(EvLoaded), None, Len(qualities))
     ELSE /\ Did("loaded", None, <<>>, <<>>, Redispatched(EvLoaded), None, -1)
          /\ UNCHANGED <<qAuto, qualities, qSelected, configured, activeId,
                         audioTracks, textTracks, canPlay>>
  /\ UNCHANGED <<provVars, ctlVars, cbVars, shakaAlive, reqFilters, respFilters,
                 listeners, pendingLoads, loadCalled, variantTracks, audioLangs,
                 textIds, libEvents, qSwitch, aSelected>>

\* 'trackschanged': Shaka's list of tracks changed; #dispatchShakaEvent, then
\* #onTracksChanged (284-292).
ShakaTracksChanged(tracks, langRoles) ==
  /\ Emitting
  /\ variantTracks' = tracks
  /\ audioLangs' = langRoles
  /\ IF "tracks" \in listeners /\ NotInitialized(qualities) /\ instance # None
     THEN LET qs == AddAll(qualities, ProjectedQualities(tracks))
              sel == SelectedAfterUpdate(qs, qSelected, tracks, activeId)
              cs == ChangeCalls(qSelected, sel, qAuto, qs, tracks)
          IN /\ qualities' = qs
             /\ qSelected' = sel
             /\ configured' = configured \cup ConfiguredBy(cs)
             /\ activeId' = ActiveAfter(cs, activeId)
             /\ Did("trackschanged", None, cs, <<>>, Redispatched(EvTrackschanged),
                    None, Len(qualities))
     ELSE /\ Did("trackschanged", None, <<>>, <<>>, Redispatched(EvTrackschanged),
                 None, -1)
          /\ UNCHANGED <<qualities, qSelected, configured, activeId>>
  /\ UNCHANGED <<provVars, ctlVars, cbVars, shakaAlive, reqFilters, respFilters,
                 listeners, pendingLoads, loadCalled, textIds, libEvents, qAuto,
                 qSwitch, trackVars>>

\* 'adaptation' with newTrack the variant track of this id (0: the event carries
\* none): #dispatchShakaEvent, then #onAdaptation (294-305).
ShakaAdaptation(trackId) ==
  /\ Emitting
  /\ trackId \in 0..Len(variantTracks)
  /\ LET at == FirstIndex([i \in DOMAIN variantTracks |-> variantTracks[i].id = trackId])
         found == IF at = 0 \/ "tracks" \notin listeners THEN 0
                  ELSE FirstIndex([i \in DOMAIN qualities |->
                                     qualities[i].height = variantTracks[at].height])
         sel == IF found # 0 THEN found ELSE qSelected
         cs == ChangeCalls(qSelected, sel, qAuto, qualities, variantTracks)
     IN /\ qSelected' = sel
        /\ configured' = configured \cup ConfiguredBy(cs)
        /\ activeId' = ActiveAfter(cs, IF at # 0 THEN trackId ELSE activeId)
        /\ Did("adaptation", None, cs, <<>>, Redispatched(EvAdaptation), None, -1)
  /\ UNCHANGED <<provVars, ctlVars, cbVars, shakaAlive, reqFilters, respFilters,
                 listeners, pendingLoads, loadCalled, variantTracks, audioLangs,
                 textIds, libEvents, qualities, qAuto, qSwitch, trackVars>>

\* #onError and #onFatalError (307-333): the notifications for an 'error' event
\* with this detail (None: the event carries none).
OnErrorNotesUnchecked(detail) == <<ErrorNote(1, detail)>>
OnErrorNotes(detail) == IF detail = None THEN <<>> ELSE <<ErrorNote(1, detail)>>

ShakaError(detail) ==
  /\ Idle
  /\ shakaAlive
  /\ Did("error", detail, <<>>,
         IF "error" \in listeners THEN OnErrorNotes(detail) ELSE <<>>,
         Redispatched(EvError), None, -1)
  /\ UNCHANGED <<provVars, ctlVars, cbVars, shakaVars, manifestVars, libEvents,
                 qualityVars, trackVars>>

\* An event that only #dispatchShakaEvent listens to.
ShakaEmits(type) ==
  /\ Emitting
  /\ type \in PlainEvents
  /\ Did("event", type, <<>>, <<>>, Redispatched(type), None, -1)
  /\ UNCHANGED <<provVars, ctlVars, cbVars, shakaVars, manifestVars, libEvents,
                 qualityVars, trackVars>>

\* 'buffering': #dispatchShakaEvent, then #onBuffering (145-151).
OnBufferingNotes(buffering) == IF buffering THEN <<<<"waiting">>>> ELSE <<>>

ShakaBuffering(buffering) ==
  /\ Emitting
  /\ Did("buffering", buffering, <<>>,
         IF "tracks" \in listeners THEN OnBufferingNotes(buffering) ELSE <<>>,
         Redispatched(EvBuffering), None, -1)
  /\ UNCHANGED <<provVars, ctlVars, cbVars, shakaVars, manifestVars, libEvents,
                 qualityVars, trackVars>>

(***************************************************************************)
(* Spec: the adapter from construction to the load of a source and the     *)
(* destruction of the provider, with one instance callback.  The other     *)
(* specifications take up what it leaves out: more callbacks, the          *)
(* settlement of a load and Shaka's events.                                *)
(***************************************************************************)
Init ==
  /\ InitProgram
  /\ variantTracks = <<>>
  /\ audioLangs = <<>>
  /\ textIds = <<>>

Next ==
  \/ \E lib \in LibKinds : SetLibrary(lib)
  \/ \E cfg \in Configs : SetConfig(cfg)
  \/ ProviderSetup
  \/ ScriptLoaded
  \/ ScriptFailed
  \/ ImportUndefined
  \/ ImportNamespace
  \/ ImportLoader
  \/ ImportResolved
  \/ ImportFailed
  \/ CallbackReturns
  \/ CallbackLoads
  \/ CallbackThrows
  \/ SetupFinish
  \/ OnInstance(1)
  \/ \E src \in Sources : HostLoadSource(src)
  \/ DestroyBegin
  \/ DestroyEnd

Spec == Init /\ [][Next]_vars

(***************************************************************************)
(* SpecCallbacks: the instance callbacks, NumCallbacks of them, registered *)
(* and disposed of at any time, also from inside a callback.               *)
(***************************************************************************)
NextCallbacks ==
  \/ ProviderSetup
  \/ ScriptLoaded
  \/ ScriptFailed
  \/ CallbackReturns
  \/ \E cb \in CallbackIds : CallbackRegisters(cb)
  \/ \E cb \in CallbackIds : CallbackDisposes(cb)
  \/ CallbackThrows
  \/ SetupFinish
  \/ \E cb \in CallbackIds : OnInstance(cb)
  \/ \E cb \in CallbackIds : Dispose(cb)
  \/ DestroyBegin
  \/ DestroyEnd

SpecCallbacks == Init /\ [][NextCallbacks]_vars

(***************************************************************************)
(* The state Spec reaches when the host has set a source, the library was  *)
(* loaded from its URL and setup has run and called instance.load: what    *)
(* the track specifications start from.                                    *)
(***************************************************************************)
LoadingAfterSetup ==
  /\ mediaSource = TRUE
  /\ library = "url"
  /\ loaderPc = "done"
  /\ ctor = TRUE
  /\ source = "str"
  /\ destroyPc = "no"
  /\ instance = "shaka"
  /\ config = EmptyConfig
  /\ callbacks = <<>>
  /\ iter = 0
  /\ setupPc = "done"
  /\ invoked = [c \in CallbackIds |-> 0]
  /\ registered = {}
  /\ disposed = {}
  /\ shakaAlive = TRUE
  /\ configured = {}
  /\ reqFilters = {}
  /\ respFilters = {}
  /\ listeners = {"dispatch", "error", "tracks", "user"}
  /\ pendingLoads = 1
  /\ loadCalled = TRUE
  /\ activeId = 0
  /\ libEvents = <<"shaka-lib-load-start", "shaka-lib-loaded", "shaka-instance">>
  /\ canPlay = FALSE
  /\ qualities = <<>>
  /\ qSelected = 0
  /\ qAuto = FALSE
  /\ qSwitch = "current"
  /\ audioTracks = <<>>
  /\ aSelected = 0
  /\ textTracks = <<>>
  /\ lastOp = "setup"
  /\ lastArg = None
  /\ calls = SetupTrackListeners \o <<<<"load", "str">>>>
  /\ notes = <<<<"provider-setup">>>>
  /\ domEvents = <<>>
  /\ thrown = None
  /\ qBefore = -1

(***************************************************************************)
(* SpecLoad: the loads the host asks for, their settlement and Shaka's     *)
(* 'error' events, from construction on, with the library loaded from its  *)
(* URL and no instance callback.                                           *)
(***************************************************************************)
NextLoad ==
  \/ \E cfg \in Configs : SetConfig(cfg)
  \/ ProviderSetup
  \/ ScriptLoaded
  \/ SetupFinish
  \/ \E src \in Sources : HostLoadSource(src)
  \/ LoadResolved
  \/ \E error \in ErrorVals : LoadRejected(error)
  \/ \E detail \in ErrorVals \cup {None} : ShakaError(detail)
  \/ DestroyBegin
  \/ DestroyEnd

SpecLoad == Init /\ [][NextLoad]_vars

(***************************************************************************)
(* SpecQuality: the projection of Shaka's tracks into the host's lists,    *)
(* for every manifest of up to MaxTracks variant tracks.                   *)
(***************************************************************************)
InitQuality ==
  /\ LoadingAfterSetup
  /\ variantTracks \in VariantLists
  /\ audioLangs = <<English, French>>
  /\ textIds = <<1, 2>>

NextQuality ==
  \/ ShakaLoaded
  \/ ShakaTracksChanged(variantTracks, audioLangs)
  \/ \E trackId \in 0..MaxTracks : ShakaAdaptation(trackId)

SpecQuality == InitQuality /\ [][NextQuality]_vars

(***************************************************************************)
(* SpecUser: the user's selections forwarded to Shaka.  Shaka's tracks are *)
(* those of one of a few manifests, and 'trackschanged' may bring another. *)
(***************************************************************************)
Track(id, w, h, bw) == [id |-> id, width |-> w, height |-> h, bandwidth |-> bw]

Manifests ==
  {<<<<Track(1, 1, 1, 1), Track(2, 2, 2, 2)>>, <<English, French>>>>,
   <<<<Track(1, 1, 2, 1), Track(2, 1, 2, 2)>>, <<French, English>>>>,
   <<<<Track(1, 1, 1, 1)>>, <<English>>>>}

InitUser ==
  /\ LoadingAfterSetup
  /\ \E m \in Manifests : variantTracks = m[1] /\ audioLangs = m[2]
  /\ textIds = <<>>

NextUser ==
  \/ ShakaLoaded
  \/ \E m \in Manifests : ShakaTracksChanged(m[1], m[2])
  \/ \E trackId \in 0..MaxTracks : ShakaAdaptation(trackId)
  \/ \E sel \in 0..(2 * MaxTracks), auto \in BOOLEAN, switch \in Switches :
       HostQualityChange(sel, auto, switch)
  \/ DestroyBegin
  \/ DestroyEnd

SpecUser == InitUser /\ [][NextUser]_vars

(***************************************************************************)
(* SpecAudio: the user's selection of an audio track forwarded to Shaka.   *)
(***************************************************************************)
NextAudio ==
  \/ ShakaLoaded
  \/ \E m \in Manifests : ShakaTracksChanged(m[1], m[2])
  \/ \E sel \in 0..MaxTracks : HostAudioChange(sel)
  \/ DestroyBegin
  \/ DestroyEnd

SpecAudio == InitUser /\ [][NextAudio]_vars

(***************************************************************************)
(* SpecEvents: the events of the Shaka player the adapter hears, from      *)
(* construction on.                                                        *)
(***************************************************************************)
NextEvents ==
  \/ ProviderSetup
  \/ ScriptLoaded
  \/ SetupFinish
  \/ \E src \in Sources : HostLoadSource(src)
  \/ \E type \in PlainEvents : ShakaEmits(type)
  \/ \E buffering \in BOOLEAN : ShakaBuffering(buffering)
  \/ ShakaLoaded
  \/ ShakaTracksChanged(variantTracks, audioLangs)
  \/ ShakaAdaptation(0)
  \/ \E detail \in ErrorVals \cup {None} : ShakaError(detail)
  \/ DestroyBegin
  \/ DestroyEnd

SpecEvents == Init /\ [][NextEvents]_vars

(***************************************************************************)
(* SpecFilters: the network filters, those of provider.config and those    *)
(* handed to registerRequestFilter and registerResponseFilter.             *)
(***************************************************************************)
NextFilters ==
  \/ \E cfg \in Configs : SetConfig(cfg)
  \/ ProviderSetup
  \/ ScriptLoaded
  \/ ScriptFailed
  \/ SetupFinish
  \/ \E filter \in RequestFilters : RegisterRequestFilter(filter)
  \/ \E filter \in ResponseFilters : RegisterResponseFilter(filter)
  \/ \E src \in Sources : HostLoadSource(src)
  \/ DestroyBegin
  \/ DestroyEnd

SpecFilters == Init /\ [][NextFilters]_vars

(***************************************************************************)
(* The claims.                                                             *)
(***************************************************************************)
LoadCalled == \E i \in DOMAIN calls : calls[i][1] = "load"
Dispatched(event) == event \in Range(libEvents)

\* C1: instance.load is called only after 'shaka-lib-loaded' was dispatched, the
\* instance was constructed by setup, the provider's config (if it has one) was
\* passed to instance.configure and the error, track and buffering listeners
\* were attached.
C1_LoadOnlyAfterSetup ==
  LoadCalled =>
    /\ Dispatched("shaka-lib-loaded")
    /\ instance # None
    /\ config.config # None => config.config \in configured
    /\ {"error", "tracks"} \subseteq listeners

\* C6: provider.instance is non-null only if provider.ctor is set and
\* 'shaka-lib-loaded' was dispatched; while the library is loading it is null.
C6_InstanceOnlyAfterLibLoaded ==
  /\ instance # None => ctor /\ Dispatched("shaka-lib-loaded")
  /\ loaderPc \in {"new", "script", "deferred", "import"} => instance = None

C6_Witness == instance # None /\ setupPc = "callbacks" /\ library = "loader"

\* C7: a requestFilter or responseFilter of provider.config is registered with
\* the networking engine before instance.load is called.
C7_FiltersRegisteredBeforeLoad ==
  LoadCalled =>
    /\ config.requestFilter # None => config.requestFilter \in reqFilters
    /\ config.responseFilter # None => config.responseFilter \in respFilters

\* C8: when instance.load is called, the value of provider.config.config at that
\* time has been passed to instance.configure.
C8_ConfigConfiguredBeforeLoad ==
  LoadCalled /\ config.config # None => config.config \in configured

\* C2: a Shaka 'error' event with a detail gives exactly one 'error' notification
\* with code 1 and that detail as its error, one without detail gives none; a
\* rejected instance.load gives exactly one 'error' notification with code 1 and
\* the rejection as its error, and nothing is thrown out of loadSource.
C2_ErrorsForwardedOnce ==
  /\ lastOp = "error" =>
       notes = IF lastArg = None THEN <<>> ELSE <<<<"error", 1, lastArg>>>>
  /\ lastOp = "loadRejected" =>
       notes = <<<<"error", 1, lastArg>>>> /\ thrown = None

C2_Witness ==
  /\ lastOp = "error"
  /\ lastArg = "e2"
  /\ notes = <<<<"error", 1, "e2">>>>
  /\ pendingLoads > 0

\* C5: a callback registered through provider.onInstance and not disposed of is
\* invoked exactly once with the instance, whenever it was registered: never
\* more than once, and once setup has run, once.
C5_CallbackInvokedOnce ==
  /\ \A cb \in CallbackIds : invoked[cb] <= 1
  /\ setupPc = "done" /\ destroyPc = "no" =>
       \A cb \in Range(callbacks) : invoked[cb] = 1

\* The variant tracks that have a width and a height, those of them of height h,
\* and the largest bandwidth among these.
SizedTracks ==
  {i \in DOMAIN variantTracks :
     variantTracks[i].height # 0 /\ variantTracks[i].width # 0}

OfHeight(h) == {i \in SizedTracks : variantTracks[i].height = h}

MaxBandwidth(h) ==
  CHOOSE b \in {variantTracks[i].bandwidth : i \in OfHeight(h)} :
    \A i \in OfHeight(h) : variantTracks[i].bandwidth <= b

NoTwoAlike(ids) == \A i, j \in DOMAIN ids : i # j => ids[i] # ids[j]

\* C4: after any sequence of 'trackschanged', 'loaded' and 'adaptation' events
\* no two qualities have the same id, no two audio tracks and no two text
\* tracks.
C4_UniqueIds ==
  /\ NoTwoAlike([k \in DOMAIN qualities |-> qualities[k].id])
  /\ NoTwoAlike([k \in DOMAIN audioTracks |-> audioTracks[k].id])
  /\ NoTwoAlike(textTracks)

\* What the handler of the qualities' 'change' is to call, given the list as the
\* handler finds it.
QualityCallsAsClaimed(cs) ==
  IF instance = None \/ qAuto \/ qSelected = 0 THEN cs = <<>>
  ELSE LET same == {i \in DOMAIN variantTracks :
                      variantTracks[i].height = qualities[qSelected].height}
           picks == {j \in DOMAIN cs : cs[j][1] = "selectVariantTrack"}
       IN /\ Len(cs) >= 1
          /\ cs[1] = <<"configure", "abrOff">>
          /\ IF same = {} THEN picks = {}
             ELSE \E j \in picks :
                    /\ picks = {j}
                    /\ j > 1
                    /\ cs[j][2] \in {variantTracks[i].id : i \in same}
                    /\ cs[j][3] = (qSwitch = "current")

\* C9: on a 'change' of the qualities with an instance, auto off and a quality
\* selected, the adapter calls configure({abr: {enabled: false}}) and then, if a
\* variant track has the height of the selected quality, selectVariantTrack with
\* such a track and clearBuffer true exactly when switch is 'current'; with no
\* instance, auto on or nothing selected it calls nothing on the instance.
C9_UserQualityForwarded ==
  /\ lastOp = "qualityChange" => QualityCallsAsClaimed(calls)
  /\ lastOp \in {"loaded", "trackschanged", "adaptation"} /\ calls # <<>> =>
       QualityCallsAsClaimed(calls)

C9_Witness ==
  /\ lastOp = "qualityChange"
  /\ qSwitch = "next"
  /\ Len(calls) = 3
  /\ calls[3] = <<"selectVariantTrack", 2, FALSE>>

\* C10: on a 'change' of the audio tracks with the track at index i selected, the
\* adapter calls selectAudioLanguage with the language and role of entry i of
\* getAudioLanguagesAndRoles(), and that entry is the one the selected track was
\* projected from; with no track selected, no instance or i outside the list it
\* makes no selection call.
C10_UserAudioForwarded ==
  lastOp = "audioChange" =>
    LET picks == {j \in DOMAIN calls : calls[j][1] = "selectAudioLanguage"}
    IN IF instance = None \/ aSelected = 0 \/ aSelected > Len(audioLangs)
       THEN picks = {}
       ELSE /\ \E j \in picks :
                 /\ picks = {j}
                 /\ calls[j][2] = audioLangs[aSelected][1]
                 /\ calls[j][3] = audioLangs[aSelected][2]
            /\ audioTracks[aSelected].language = audioLangs[aSelected][1]
            /\ audioTracks[aSelected].kind = audioLangs[aSelected][2]

Count(seq, x) == Cardinality({i \in DOMAIN seq : seq[i] = x})

ErrorNotes(code) == {i \in DOMAIN notes : notes[i][1] = "error" /\ notes[i][2] = code}

\* C11: where MediaSource is undefined no Shaka instance is built and
\* 'shaka-instance' is never dispatched.
C11_NoInstanceWhenUnsupported ==
  ~mediaSource =>
    /\ ~Dispatched("shaka-instance")
    /\ instance = None
    /\ ~shakaAlive

\* C12: when loading the library fails (the script fails to load or leaves no
\* shaka.Player, the dynamic import rejects or resolves to no namespace),
\* 'shaka-lib-load-error' is dispatched, the host is notified of one error with
\* code 4, the provider's setup callback is not invoked and provider.instance
\* stays null.
C12_LoadFailureReported ==
  /\ lastOp \in {"scriptFailed", "importFailed"} =>
       /\ libEvents[Len(libEvents)] = "shaka-lib-load-error"
       /\ Cardinality(ErrorNotes(4)) = 1
       /\ Len(notes) = 1
  /\ loaderPc = "failed" /\ setupPc = "none" =>
       /\ Dispatched("shaka-lib-load-error")
       /\ ~ctor
       /\ instance = None
       /\ ~shakaAlive
       /\ \A cb \in CallbackIds : invoked[cb] = 0

C12_Witness ==
  /\ lastOp = "importFailed"
  /\ library = "loader"
  /\ callbacks # <<>>
  /\ instance = None

\* C13: when #startLoading has the constructor and MediaSource is undefined,
\* 'shaka-unsupported' is dispatched exactly once and the host is notified of
\* exactly one error with code 4; with MediaSource defined 'shaka-unsupported'
\* is never dispatched.
C13_UnsupportedReportedOnce ==
  /\ mediaSource => ~Dispatched("shaka-unsupported")
  /\ Count(libEvents, "shaka-unsupported") <= 1
  /\ ~mediaSource /\ loaderPc = "done" => Count(libEvents, "shaka-unsupported") = 1
  /\ ~mediaSource /\ lastOp = "setup" => Cardinality(ErrorNotes(4)) = 1
  /\ mediaSource /\ lastOp = "setup" => ErrorNotes(4) = {}

C13_Witness ==
  /\ ~mediaSource
  /\ lastOp = "setup"
  /\ library = "namespace"
  /\ libEvents[Len(libEvents)] = "shaka-unsupported"

\* C14: 'shaka-lib-load-start' is dispatched exactly once for a load attempt and
\* before 'shaka-lib-loaded' and 'shaka-lib-load-error'; exactly one of these
\* two follows it, never both, also when the setup callback run by the loaded
\* handler throws.
C14_LoadEventsOnceEach ==
  /\ Count(libEvents, "shaka-lib-load-start") <= 1
  /\ Dispatched("shaka-lib-loaded") \/ Dispatched("shaka-lib-load-error") =>
       libEvents[1] = "shaka-lib-load-start"
  /\ ~(Dispatched("shaka-lib-loaded") /\ Dispatched("shaka-lib-load-error"))
  /\ Count(libEvents, "shaka-lib-loaded") <= 1
  /\ Count(libEvents, "shaka-lib-load-error") <= 1
  /\ loaderPc \in {"loaded", "done", "failed"} =>
       Dispatched("shaka-lib-loaded") \/ Dispatched("shaka-lib-load-error")

\* C18: with the library undefined the default CDN is used: a load is started
\* ('shaka-lib-load-start' is dispatched) and ends in 'shaka-lib-loaded' or
\* 'shaka-lib-load-error'.
C18_UndefinedLibraryLoadsDefault ==
  library = "undefined" /\ loaderPc \notin {"new", "deferred"} =>
    /\ Dispatched("shaka-lib-load-start")
    /\ loaderPc \notin {"script", "import"} =>
         Dispatched("shaka-lib-loaded") \/ Dispatched("shaka-lib-load-error")

\* The type of the Shaka event the last handler heard, if it heard one of those
\* the adapter re-dispatches.
HeardType ==
  CASE lastOp = "event" -> lastArg
    [] lastOp = "buffering" -> EvBuffering
    [] lastOp = "loaded" -> EvLoaded
    [] lastOp = "trackschanged" -> EvTrackschanged
    [] lastOp = "adaptation" -> EvAdaptation
    [] OTHER -> <<>>

\* C15: a Shaka event the adapter re-dispatches reaches the player as one DOM
\* event with the name ShakaProviderEvents declares for it ('trackschanged' as
\* 'shaka-tracks-changed', 'manifestparsed' as 'shaka-manifest-parsed', ...).
C15_RedispatchedUnderDeclaredName ==
  HeardType # <<>> => domEvents = <<DeclaredName(HeardType)>>

\* C16: when the Shaka instance emits an 'error' event, one 'shaka-error' event
\* is dispatched on the player.
C16_ErrorRedispatched ==
  lastOp = "error" => domEvents = <<DeclaredErrorName>>

\* C17: after provider.registerRequestFilter(f) or registerResponseFilter(f) the
\* filter is registered with the networking engine, in every state the call can
\* be made in, also before the instance is created.
C17_FilterRegisteredOnCall ==
  /\ lastOp = "registerRequestFilter" => lastArg \in reqFilters
  /\ lastOp = "registerResponseFilter" => lastArg \in respFilters

\* C19: the qualities one run of #updateQualityTracks adds are added in strictly
\* descending order of height, and the index of each is its 0-based position in
\* that order.
C19_AddedInDescendingHeight ==
  qBefore >= 0 =>
    LET added == SubSeq(qualities, qBefore + 1, Len(qualities))
    IN /\ \A i, j \in DOMAIN added : i < j => added[i].height > added[j].height
       /\ \A i \in DOMAIN added : added[i].index = i - 1

C19_Witness ==
  /\ qBefore = 0
  /\ Len(variantTracks) = 2
  /\ variantTracks[1].height < variantTracks[2].height
  /\ Len(qualities) = 2
  /\ qualities[1].id = <<"shaka-quality", 2>>
  /\ qualities[2].index = 1

\* C20: variant tracks are deduplicated by resolution: tracks with a width and a
\* height that differ in width or in height each get a quality of their own, so
\* there are as many qualities as resolutions.
C20_OneQualityPerResolution ==
  qBefore = 0 =>
    Len(qualities) =
      Cardinality({<<variantTracks[i].width, variantTracks[i].height>> :
                     i \in SizedTracks})

\* C21: once the dispose function that onInstance returned has been called, no
\* later step invokes the callback: the loop of setup skips it, and a callback
\* disposed of before the instance exists is never invoked at all.
C21_DisposedNeverInvoked ==
  [][\A cb \in disposed : invoked'[cb] = invoked[cb]]_vars

\* The instance was created after one callback was disposed of and while another
\* was still registered: the second one was invoked, the first one never.
C21_Witness ==
  /\ lastOp = "setup"
  /\ instance # None
  /\ \E cb \in disposed : invoked[cb] = 0
  /\ \E cb \in CallbackIds \ disposed : invoked[cb] = 1

\* C22: the adapter does not retry a load.  A handler calls instance.load at most
\* once, and only a call of loadSource does (by the host, by the provider's
\* setup callback or by an instance callback); the handler of a rejected load
\* and the handler of a Shaka 'error' event call nothing on the instance.
C22_NoRetry ==
  /\ LoadsIn(calls) <= 1
  /\ LoadsIn(calls) = 1 =>
       \/ lastOp \in {"loadSource", "setup"}
       \/ lastOp = "callback" /\ lastArg = "load"
  /\ lastOp \in {"loadRejected", "error"} => calls = <<>>

\* A load was rejected: the failure was notified, no call followed, and no
\* promise of load is left pending.
C22_Witness ==
  /\ lastOp = "loadRejected"
  /\ notes = LoadRejectedNotes(lastArg)
  /\ calls = <<>>
  /\ loadCalled
  /\ pendingLoads = 0

\* C23: within setup, instance.configure(config.config) is called before any
\* event listener is attached to the instance: every addEventListener call a
\* handler makes comes after its configure call.
C23_ConfigureBeforeListeners ==
  config.config # None =>
    \A i \in DOMAIN calls :
      calls[i][1] = "addEventListener" =>
        \E j \in 1..(i - 1) : calls[j] = <<"configure", config.config>>

\* C24: once provider.destroy() has been called, no Shaka instance is constructed
\* afterwards: after a destroy that has finished there is no instance and no
\* live player, also when destroy ran while the library was still loading.
C24_NoInstanceAfterDestroy ==
  destroyPc = "done" => instance = None /\ ~shakaAlive

====
